---------------------------- MODULE Spec2Model ----------------------------
(***************************************************************************)
(* FluxNode: the interaction and coordinate engine of src/README.md        *)
(* (lines 228-781 hold the library source) driven by the host application  *)
(* of src/example/App.tsx.                                                 *)
(*                                                                         *)
(* Numbers.  JavaScript numbers are modelled as exact rationals <<n, d>>   *)
(* in lowest terms with d > 0; <<1, 0>> and <<-1, 0>> stand for Infinity   *)
(* and -Infinity (the seeds of the bounding-box folds).  Node positions    *)
(* stay integral because NodeComponent always receives scale = 1.          *)
(*                                                                         *)
(* Events.  React (17 and later) delegates its handlers to the root        *)
(* container, so e.stopPropagation() inside a React handler keeps the      *)
(* native event from reaching listeners registered on document.  Which     *)
(* element lies under the pointer is an input of the host environment;     *)
(* the one mouse button is pressed and released alternately.               *)
(***************************************************************************)
EXTENDS Integers, Sequences, FiniteSets, TLC

VARIABLES
    nodes,        \* App: useState(initialNodes)
    edges,        \* App: useState(initialEdges)
    fitView,      \* FluxNode prop
    rect,         \* containerRef.current.getBoundingClientRect(): [width, height]
    transform,    \* FluxNode: useState({x, y, scale})
    isPanning,    \* FluxNode: useState(false)
    panStart,     \* FluxNode: useState({x, y})
    isDragging,   \* NodeComponent: useState(false), one per mounted node
    dragStart,    \* NodeComponent: useState({x, y}), one per mounted node
    connecting,   \* ids of the nodes whose source handle carries data-connecting
    pointer,      \* where the pointer was at the last event that had a position
    pressed,      \* the mouse button: "none" (released), or where it went down:
                  \* "minimap" or "other"
    viewport,     \* viewportWidth/viewportHeight props of MiniMap at the last render
    lastEvent,    \* the event handled last
    requests,     \* Connection Requests emitted (onConnect calls) since mount, in order
    changes,      \* NodeChange descriptors emitted (onNodeChange calls) by the last event
    clock,        \* number of events handled so far
    call          \* the last call of a Change Algebra function, with its result

vars == <<nodes, edges, fitView, rect, transform, isPanning, panStart, isDragging,
          dragStart, connecting, pointer, pressed, viewport, lastEvent, requests, changes,
          clock, call>>

(***************************************************************************)
(* Bounds of the model.                                                    *)
(***************************************************************************)
MaxEvents == 4
MaxLen == 3

(***************************************************************************)
(* Rational arithmetic.                                                    *)
(***************************************************************************)
Abs(n) == IF n < 0 THEN -n ELSE n

RECURSIVE GCD(_, _)
GCD(a, b) == IF b = 0 THEN a ELSE GCD(b, a % b)

RNorm(n, d) ==
    IF d = 0 THEN <<IF n < 0 THEN -1 ELSE 1, 0>>
    ELSE LET s == IF d < 0 THEN -1 ELSE 1
             g == GCD(Abs(n), Abs(d))
         IN  <<(s * n) \div g, (s * d) \div g>>

R(n) == <<n, 1>>
Infinity == <<1, 0>>
NegInfinity == <<-1, 0>>
\* sums over the least common denominator and products after cross-cancelling, so that
\* intermediate values stay small
RAdd(a, b) ==
    IF a[2] = 0 THEN a ELSE IF b[2] = 0 THEN b
    ELSE LET g == GCD(a[2], b[2])
         IN  RNorm(a[1] * (b[2] \div g) + b[1] * (a[2] \div g), a[2] * (b[2] \div g))
RMul(a, b) ==
    LET g1 == GCD(Abs(a[1]), Abs(b[2]))
        g2 == GCD(Abs(b[1]), Abs(a[2]))
        h1 == IF g1 = 0 THEN 1 ELSE g1
        h2 == IF g2 = 0 THEN 1 ELSE g2
    IN  RNorm((a[1] \div h1) * (b[1] \div h2), (a[2] \div h2) * (b[2] \div h1))
RSub(a, b) == RAdd(a, <<-b[1], b[2]>>)
RDiv(a, b) == IF b[1] < 0 THEN RMul(a, <<-b[2], -b[1]>>) ELSE RMul(a, <<b[2], b[1]>>)
RNeg(a) == <<-a[1], a[2]>>
RLe(a, b) ==
    LET g == GCD(a[2], b[2])
        h == IF g = 0 THEN 1 ELSE g
    IN  a[1] * (b[2] \div h) <= b[1] * (a[2] \div h)
RMin(a, b) == IF RLe(a, b) THEN a ELSE b
RMax(a, b) == IF RLe(a, b) THEN b ELSE a

(***************************************************************************)
(* Change Algebra.                                                         *)
(* A Node is [id, position |-> [x, y], data]; an Edge is [id, source,      *)
(* target]; a NodeChange is [type, id, position] where position is <<>>    *)
(* (absent) or <<[x, y]>>; an EdgeChange is [type, id]; a Connection is    *)
(* [source, target].                                                       *)
(***************************************************************************)
\* as Find, without the c.id === id test
FindAny(cs, id) == IF cs = <<>> THEN <<>> ELSE <<Head(cs)>>

\* as Find, searching from the end (findLast)
RECURSIVE FindLast(_, _)
FindLast(cs, id) ==
    IF cs = <<>> THEN <<>>
    ELSE IF cs[Len(cs)].id = id THEN <<cs[Len(cs)]>>
    ELSE FindLast(SubSeq(cs, 1, Len(cs) - 1), id)

\* as Find, looking at changes[0] only
FindHead(cs, id) == IF cs # <<>> /\ Head(cs).id = id THEN <<Head(cs)>> ELSE <<>>

\* changes.find(c => c.id === id): <<>> when no change matches, else <<first match>>
RECURSIVE Find(_, _)
Find(cs, id) ==
    IF cs = <<>> THEN <<>>
    ELSE IF Head(cs).id = id THEN <<Head(cs)>>
    ELSE Find(Tail(cs), id)

\* as applyNodeChanges, with 'remove' falling through to the default case
RECURSIVE applyNodeChangesKeepRemoved(_, _)
applyNodeChangesKeepRemoved(cs, ns) ==
    IF ns = <<>> THEN <<>>
    ELSE LET node == ns[Len(ns)]
             acc == applyNodeChangesKeepRemoved(cs, SubSeq(ns, 1, Len(ns) - 1))
             found == Find(cs, node.id)
         IN  IF found = <<>> THEN Append(acc, node)
             ELSE LET change == found[1]
                  IN  CASE change.type = "position" ->
                             Append(acc, [node EXCEPT !.position =
                                 IF change.position = <<>> THEN node.position
                                 ELSE change.position[1]])
                        [] OTHER -> Append(acc, node)

RECURSIVE applyNodeChanges(_, _)
applyNodeChanges(cs, ns) ==
    IF ns = <<>> THEN <<>>
    ELSE LET node == ns[Len(ns)]
             acc == applyNodeChanges(cs, SubSeq(ns, 1, Len(ns) - 1))
             found == Find(cs, node.id)
         IN  IF found = <<>> THEN Append(acc, node)
             ELSE LET change == found[1]
                  IN  CASE change.type = "position" ->
                             Append(acc, [node EXCEPT !.position =
                                 IF change.position = <<>> THEN node.position
                                 ELSE change.position[1]])
                        [] change.type = "remove" -> acc
                        [] OTHER -> Append(acc, node)

RECURSIVE applyEdgeChanges(_, _)
applyEdgeChanges(cs, es) ==
    IF es = <<>> THEN <<>>
    ELSE LET edge == es[Len(es)]
             acc == applyEdgeChanges(cs, SubSeq(es, 1, Len(es) - 1))
             found == Find(cs, edge.id)
         IN  IF found = <<>> THEN Append(acc, edge)
             ELSE CASE found[1].type = "remove" -> acc
                    [] OTHER -> Append(acc, edge)

\* as Exists, with source and target of the new edge swapped in the comparison
ExistsReversed(newEdge, es) ==
    \E i \in 1..Len(es) : es[i].source = newEdge.target /\ es[i].target = newEdge.source

\* as Exists, comparing the source only
ExistsSourceOnly(newEdge, es) ==
    \E i \in 1..Len(es) : es[i].source = newEdge.source

\* edges.some(edge => edge.source === newEdge.source && edge.target === newEdge.target)
Exists(newEdge, es) ==
    \E i \in 1..Len(es) : es[i].source = newEdge.source /\ es[i].target = newEdge.target

NewEdge(connection) ==
    [id |-> connection.source \o "-" \o connection.target,
     source |-> connection.source,
     target |-> connection.target]

\* as addEdge, without the check for an existing edge
addEdgeAlwaysAppend(connection, es) == Append(es, NewEdge(connection))

addEdge(connection, es) ==
    IF Exists(NewEdge(connection), es) THEN es
    ELSE Append(es, NewEdge(connection))


(***************************************************************************)
(* Geometry shared by fit-to-content and the minimap.                      *)
(***************************************************************************)
NodeWidth == 120
NodeHeight == 40
FitPadding == 50
MiniMapPadding == 100
miniMapWidth == 200
miniMapHeight == 150
Border == 1
DefaultWidth == 800
DefaultHeight == 600

\* let minX = Infinity, maxX = -Infinity, ...; nodes.forEach(node => { ... })
RECURSIVE Extent(_)
Extent(ns) ==
    IF ns = <<>>
    THEN [minX |-> Infinity, maxX |-> NegInfinity, minY |-> Infinity, maxY |-> NegInfinity]
    ELSE LET e == Extent(SubSeq(ns, 1, Len(ns) - 1))
             node == ns[Len(ns)]
         IN  [minX |-> RMin(e.minX, R(node.position.x)),
              maxX |-> RMax(e.maxX, R(node.position.x + NodeWidth)),
              minY |-> RMin(e.minY, R(node.position.y)),
              maxY |-> RMax(e.maxY, R(node.position.y + NodeHeight))]

\* as FitTransform, with Math.min(scaleX, scaleY) in place of Math.min(scaleX, scaleY, 1)
FitTransformUncapped(ns, rc) ==
    LET e == Extent(ns)
        contentWidth == RAdd(RSub(e.maxX, e.minX), R(FitPadding * 2))
        contentHeight == RAdd(RSub(e.maxY, e.minY), R(FitPadding * 2))
        scaleX == RDiv(R(rc.width), contentWidth)
        scaleY == RDiv(R(rc.height), contentHeight)
        scale == RMin(scaleX, scaleY)
        centerX == RDiv(RAdd(e.minX, e.maxX), R(2))
        centerY == RDiv(RAdd(e.minY, e.maxY), R(2))
    IN  [x |-> RSub(RDiv(R(rc.width), R(2)), RMul(centerX, scale)),
         y |-> RSub(RDiv(R(rc.height), R(2)), RMul(centerY, scale)),
         scale |-> scale]

\* the transform the fitView effect stores
FitTransform(ns, rc) ==
    LET e == Extent(ns)
        contentWidth == RAdd(RSub(e.maxX, e.minX), R(FitPadding * 2))
        contentHeight == RAdd(RSub(e.maxY, e.minY), R(FitPadding * 2))
        scaleX == RDiv(R(rc.width), contentWidth)
        scaleY == RDiv(R(rc.height), contentHeight)
        scale == RMin(RMin(scaleX, scaleY), R(1))
        centerX == RDiv(RAdd(e.minX, e.maxX), R(2))
        centerY == RDiv(RAdd(e.minY, e.maxY), R(2))
    IN  [x |-> RSub(RDiv(R(rc.width), R(2)), RMul(centerX, scale)),
         y |-> RSub(RDiv(R(rc.height), R(2)), RMul(centerY, scale)),
         scale |-> scale]

\* useEffect(..., [fitView, nodes]): runs after every commit in which the nodes
\* array is a new array; t is the transform the commit would otherwise leave
FitEffect(fit, ns, rc, t) ==
    IF fit /\ Len(ns) > 0 THEN FitTransform(ns, rc) ELSE t

\* containerRef.current?.clientWidth || 800, clientHeight || 600
ClientSize(rc) ==
    [width |-> IF rc.width - 2 * Border = 0 THEN DefaultWidth ELSE rc.width - 2 * Border,
     height |-> IF rc.height - 2 * Border = 0 THEN DefaultHeight ELSE rc.height - 2 * Border]

\* MiniMap: bounds (useMemo) and scale
Bounds(ns) ==
    IF Len(ns) = 0 THEN [minX |-> R(0), maxX |-> R(1000), minY |-> R(0), maxY |-> R(1000)]
    ELSE LET e == Extent(ns)
         IN  [minX |-> RSub(e.minX, R(MiniMapPadding)),
              maxX |-> RAdd(e.maxX, R(MiniMapPadding)),
              minY |-> RSub(e.minY, R(MiniMapPadding)),
              maxY |-> RAdd(e.maxY, R(MiniMapPadding))]

MiniMapScale(ns) ==
    LET b == Bounds(ns)
        scaleX == RDiv(R(miniMapWidth), RSub(b.maxX, b.minX))
        scaleY == RDiv(R(miniMapHeight), RSub(b.maxY, b.minY))
    IN  RMin(scaleX, scaleY)

\* Math.max(0.1, Math.min(2, s))
MinScale == <<1, 10>>
MaxScale == <<2, 1>>
\* as Clamp, without the lower limit
ClampUpperOnly(s) == RMin(MaxScale, s)
Clamp(s) == RMax(MinScale, RMin(MaxScale, s))

\* as WheelTransform, with the world point taken without dividing by the old scale
WheelTransformUnscaled(t, p, deltaY) ==
    LET delta == IF deltaY > 0 THEN <<9, 10>> ELSE <<11, 10>>
        newScale == Clamp(RMul(t.scale, delta))
        worldX == RSub(R(p.x), t.x)
        worldY == RSub(R(p.y), t.y)
    IN  [x |-> RSub(R(p.x), RMul(worldX, newScale)),
         y |-> RSub(R(p.y), RMul(worldY, newScale)),
         scale |-> newScale]

\* handleWheel: the transform stored for a wheel event at container point p
WheelTransform(t, p, deltaY) ==
    LET delta == IF deltaY > 0 THEN <<9, 10>> ELSE <<11, 10>>
        newScale == Clamp(RMul(t.scale, delta))
        worldX == RDiv(RSub(R(p.x), t.x), t.scale)
        worldY == RDiv(RSub(R(p.y), t.y), t.scale)
    IN  [x |-> RSub(R(p.x), RMul(worldX, newScale)),
         y |-> RSub(R(p.y), RMul(worldY, newScale)),
         scale |-> newScale]

\* MiniMap's viewport indicator <rect>: x, y, width, height
Indicator(t, ns, vp) ==
    LET b == Bounds(ns)
        scale == MiniMapScale(ns)
    IN  [x |-> RMul(RSub(RNeg(t.x), b.minX), scale),
         y |-> RMul(RSub(RNeg(t.y), b.minY), scale),
         width |-> RMul(RDiv(R(vp.width), t.scale), scale),
         height |-> RMul(RDiv(R(vp.height), t.scale), scale)]

\* handleMiniMapClick + handleViewportChange: c is the click pixel inside the minimap
MiniMapTransform(t, ns, vp, c) ==
    LET b == Bounds(ns)
        x == RAdd(RDiv(R(c.x), MiniMapScale(ns)), b.minX)
        y == RAdd(RDiv(R(c.y), MiniMapScale(ns)), b.minY)
    IN  [t EXCEPT !.x = RAdd(RNeg(x), RDiv(R(vp.width), R(2))),
                  !.y = RAdd(RNeg(y), RDiv(R(vp.height), R(2)))]


(***************************************************************************)
(* Inputs of the host environment.                                         *)
(***************************************************************************)
NodeIds == {"n1", "n2"}
Pos(x, y) == [x |-> x, y |-> y]
MkNode(id, x, y) == [id |-> id, position |-> Pos(x, y), data |-> "Node " \o id]
MkEdge(s, t) == [id |-> s \o "-" \o t, source |-> s, target |-> t]

\* node collections handed to FluxNode: the README's and a wide one
Diagrams ==
    { <<MkNode("n1", 100, 100), MkNode("n2", 300, 100)>>,
      <<MkNode("n1", 100, 100), MkNode("n2", 15920, 100)>> }
EdgeLists == { <<>>, <<MkEdge("n1", "n2")>> }
Rects == { [width |-> 802, height |-> 602] }
\* pointer positions, relative to the container's top-left corner
Points == { Pos(100, 100), Pos(150, 130) }
\* where the pointer is pressed
DownPoints == { Pos(100, 100) }
\* click pixels inside the minimap
MiniMapPoints == { Pos(0, 0), Pos(100, 75) }
DeltaYs == { -100, 100 }

Ids(ns) == { ns[i].id : i \in 1..Len(ns) }
NodeOf(ns, id) == ns[CHOOSE i \in 1..Len(ns) : ns[i].id = id]
\* an event: its kind, the element under the pointer (the event's target), the node
\* owning that element and, for a mouseup on a target handle, what
\* document.querySelector returned
NoEvent == [kind |-> "mount", target |-> "none", node |-> "none", found |-> <<>>]
Event(kind, target, node) == [kind |-> kind, target |-> target, node |-> node, found |-> <<>>]
\* a wheel event also carries its deltaY and, for reference, the transform it found
WheelEvent(target, node, deltaY, t) ==
    [kind |-> "wheel", target |-> target, node |-> node, found |-> <<>>,
     deltaY |-> deltaY, from |-> t]
\* the mouseup and click on the minimap, with the click's pixel inside the minimap
ClickEvent(c) ==
    [kind |-> "up", target |-> "minimap", node |-> "none", found |-> <<>>, pixel |-> c]
NoCall == [fn |-> "none"]

(***************************************************************************)
(* The state after FluxNode has mounted and its effects have run.          *)
(***************************************************************************)
Init ==
    /\ nodes \in Diagrams
    /\ edges \in EdgeLists
    /\ fitView \in BOOLEAN
    /\ rect \in Rects
    /\ transform = FitEffect(fitView, nodes, rect, [x |-> R(0), y |-> R(0), scale |-> R(1)])
    /\ isPanning = FALSE
    /\ panStart = [x |-> R(0), y |-> R(0)]
    /\ isDragging = [n \in NodeIds |-> FALSE]
    /\ dragStart = [n \in NodeIds |-> Pos(0, 0)]
    /\ connecting = {}
    /\ pointer \in DownPoints
    /\ pressed = "none"
    /\ viewport = IF fitView /\ Len(nodes) > 0 THEN ClientSize(rect)
                  ELSE [width |-> DefaultWidth, height |-> DefaultHeight]
    /\ lastEvent = NoEvent
    /\ requests = <<>>
    /\ changes = <<>>
    /\ clock = 0
    /\ call = NoCall

\* the model handles at most MaxEvents events
Ready == clock < MaxEvents

(***************************************************************************)
(* The pointer.  mousemove is handled only while a document listener is    *)
(* registered, that is while a node is dragging or the viewport is         *)
(* panning: then the pointer's position and the element under it are       *)
(* those of the last event, and change by MouseMove only.  Otherwise the   *)
(* pointer travels unobserved and the next event may land anywhere.  Which *)
(* element lies under a position (hit testing) is left to the environment. *)
(***************************************************************************)
Listening == (\E n \in NodeIds : isDragging[n]) \/ isPanning
Lands(target, node) == ~Listening \/ (lastEvent.target = target /\ lastEvent.node = node)
At(p) == ~Listening \/ pointer = p
Elements(ns) ==
    { <<"background", "none">>, <<"viewport", "none">>, <<"minimap", "none">> }
        \cup { <<part, n>> : part \in {"body", "source", "target"}, n \in Ids(ns) }

\* every event handler: one more event, what it was, what it emitted
Handled(ev, reqs, chs) ==
    /\ clock' = clock + 1
    /\ lastEvent' = ev
    /\ requests' = requests \o reqs
    /\ changes' = chs
    /\ UNCHANGED <<fitView, rect, call>>

(***************************************************************************)
(* mousedown                                                               *)
(***************************************************************************)
\* FluxNode.handleMouseDown with e.target === e.currentTarget
MouseDownBackground(p) ==
    /\ Ready
    /\ pressed = "none"
    /\ Lands("background", "none") /\ At(p)
    /\ pressed' = "other"
    /\ pointer' = p
    /\ isPanning' = TRUE
    /\ panStart' = [x |-> RSub(R(p.x), transform.x), y |-> RSub(R(p.y), transform.y)]
    /\ viewport' = ClientSize(rect)
    /\ Handled(Event("down", "background", "none"), <<>>, <<>>)
    /\ UNCHANGED <<nodes, edges, transform, isDragging, dragStart, connecting>>

\* mousedown on the viewport div or on the minimap: it bubbles to
\* FluxNode.handleMouseDown, where e.target !== e.currentTarget
MouseDownViewport(target, p) ==
    /\ Ready
    /\ pressed = "none"
    /\ target \in {"viewport", "minimap"}
    /\ Lands(target, "none") /\ At(p)
    /\ pressed' = IF target = "minimap" THEN "minimap" ELSE "other"
    /\ pointer' = p
    /\ Handled(Event("down", target, "none"), <<>>, <<>>)
    /\ UNCHANGED <<nodes, edges, transform, isPanning, panStart, isDragging, dragStart,
                   connecting, viewport>>

\* <NodeComponent ... scale={1} />: node scaling is left to the viewport's CSS transform
NodeScale == 1

\* NodeComponent.handleMouseDown, reached from the node's body and, by bubbling, from its
\* target handle (Handle.handleMouseDown stops propagation for a source handle only)
StartDrag(n, p) ==
    /\ isDragging' = [isDragging EXCEPT ![n] = TRUE]
    /\ dragStart' = [dragStart EXCEPT ![n] =
                        Pos(p.x - NodeOf(nodes, n).position.x * NodeScale,
                            p.y - NodeOf(nodes, n).position.y * NodeScale)]

MouseDownNode(n, part, p) ==
    /\ Ready
    /\ pressed = "none"
    /\ n \in Ids(nodes)
    /\ part \in {"body", "target"}
    /\ Lands(part, n) /\ At(p)
    /\ pressed' = "other"
    /\ pointer' = p
    /\ StartDrag(n, p)
    /\ Handled(Event("down", part, n), <<>>, <<>>)
    /\ UNCHANGED <<nodes, edges, transform, isPanning, panStart, connecting, viewport>>

\* Handle.handleMouseDown, type === 'source'
MouseDownSource(n, p) ==
    /\ Ready
    /\ pressed = "none"
    /\ n \in Ids(nodes)
    /\ Lands("source", n) /\ At(p)
    /\ pressed' = "other"
    /\ pointer' = p
    /\ connecting' = connecting \cup {n}
    /\ Handled(Event("down", "source", n), <<>>, <<>>)
    /\ UNCHANGED <<nodes, edges, transform, isPanning, panStart, isDragging, dragStart,
                   viewport>>

(***************************************************************************)
(* mousemove: the document listeners of every dragging NodeComponent and   *)
(* of a panning FluxNode, the host folding each change into its nodes, and *)
(* the fitView effect of the commit that follows.                          *)
(***************************************************************************)
\* NodeComponent's handleMouseMove, for every dragging node in render order
RECURSIVE DragChanges(_, _, _, _)
DragChanges(ns, dragging, start, p) ==
    IF ns = <<>> THEN <<>>
    ELSE LET rest == DragChanges(Tail(ns), dragging, start, p)
             id == Head(ns).id
         IN  IF dragging[id]
             THEN <<[type |-> "position", id |-> id,
                     position |-> <<Pos((p.x - start[id].x) \div NodeScale,
                                        (p.y - start[id].y) \div NodeScale)>>]>> \o rest
             ELSE rest

\* App.onNodesChange for each FluxNode.handleNodeChange call:
\* setNodes(nodesSnapshot => applyNodeChanges([change], nodesSnapshot))
RECURSIVE FoldChanges(_, _)
FoldChanges(chs, ns) ==
    IF chs = <<>> THEN ns
    ELSE FoldChanges(Tail(chs), applyNodeChanges(<<Head(chs)>>, ns))

\* FluxNode's handleMouseMove
PanTransform(t, panning, start, p) ==
    IF panning
    THEN [t EXCEPT !.x = RSub(R(p.x), start.x), !.y = RSub(R(p.y), start.y)]
    ELSE t

\* the pointer moves to p, where element el lies under it
MouseMove(p, el) ==
    /\ Ready
    /\ Listening
    /\ el \in Elements(nodes)
    /\ pointer' = p
    /\ LET chs == DragChanges(nodes, isDragging, dragStart, p)
           folded == FoldChanges(chs, nodes)
           panned == PanTransform(transform, isPanning, panStart, p)
       IN  /\ nodes' = folded
           /\ transform' = IF chs # <<>> THEN FitEffect(fitView, folded, rect, panned)
                           ELSE panned
           /\ viewport' = IF isPanning \/ chs # <<>> THEN ClientSize(rect) ELSE viewport
           /\ Handled(Event("move", el[1], el[2]), <<>>, chs)
    /\ UNCHANGED <<edges, isPanning, panStart, isDragging, dragStart, connecting, pressed>>

(***************************************************************************)
(* mouseup                                                                 *)
(***************************************************************************)
\* document.querySelector('[data-connecting="true"]'): the first marked source handle in
\* document order, which is render order; <<>> when there is none
RECURSIVE QuerySelector(_, _)
QuerySelector(ns, marked) ==
    IF ns = <<>> THEN <<>>
    ELSE IF Head(ns).id \in marked THEN <<Head(ns).id>>
    ELSE QuerySelector(Tail(ns), marked)

\* as ConnectRequests, without the sourceNodeId !== nodeId test
ConnectRequestsAllowSelf(ns, marked, n) ==
    LET connectingHandle == QuerySelector(ns, marked)
    IN  IF connectingHandle # <<>>
        THEN <<[source |-> connectingHandle[1], target |-> n]>>
        ELSE <<>>

\* the onConnect calls of Handle.handleMouseUp on the target handle of node n
ConnectRequests(ns, marked, n) ==
    LET connectingHandle == QuerySelector(ns, marked)
    IN  IF connectingHandle # <<>> /\ connectingHandle[1] # n
        THEN <<[source |-> connectingHandle[1], target |-> n]>>
        ELSE <<>>

\* the markers left by Handle.handleMouseUp on a target handle
Unmarked(ns, marked) ==
    LET connectingHandle == QuerySelector(ns, marked)
    IN  IF connectingHandle # <<>> THEN marked \ {connectingHandle[1]} ELSE marked

\* App.onConnect: setEdges(edgesSnapshot => addEdge(params, edgesSnapshot))
RECURSIVE FoldConnects(_, _)
FoldConnects(reqs, es) ==
    IF reqs = <<>> THEN es
    ELSE FoldConnects(Tail(reqs), addEdge(Head(reqs), es))

\* Handle.handleMouseUp: e.stopPropagation() keeps the event from the document listeners
MouseUpHandle(n, type) ==
    /\ Ready
    /\ pressed # "none"
    /\ n \in Ids(nodes)
    /\ type \in {"source", "target"}
    /\ Lands(type, n)
    /\ pressed' = "none"
    /\ LET reqs == IF type = "target" THEN ConnectRequests(nodes, connecting, n) ELSE <<>>
       IN  /\ edges' = FoldConnects(reqs, edges)
           /\ connecting' = IF type = "target" THEN Unmarked(nodes, connecting)
                            ELSE connecting
           /\ viewport' = IF edges' # edges THEN ClientSize(rect) ELSE viewport
           /\ Handled([Event("up", type, n) EXCEPT !.found =
                          IF type = "target" THEN QuerySelector(nodes, connecting) ELSE <<>>],
                      reqs, <<>>)
    /\ UNCHANGED <<nodes, transform, isPanning, panStart, isDragging, dragStart, pointer>>

\* mouseup anywhere else (background, viewport, node body, minimap without a click,
\* outside the container): it reaches document, where every dragging NodeComponent and
\* a panning FluxNode have their handleMouseUp registered
MouseUpElsewhere ==
    /\ Ready
    /\ pressed # "none"
    /\ ~Listening \/ /\ lastEvent.target \notin {"source", "target"}
                     /\ ~(lastEvent.target = "minimap" /\ pressed = "minimap")
    /\ pressed' = "none"
    /\ isDragging' = [n \in NodeIds |-> FALSE]
    /\ isPanning' = FALSE
    /\ viewport' = IF isPanning THEN ClientSize(rect) ELSE viewport
    /\ Handled(Event("up", "elsewhere", "none"), <<>>, <<>>)
    /\ UNCHANGED <<nodes, edges, transform, panStart, dragStart, connecting, pointer>>

(***************************************************************************)
(* wheel, minimap click, and the host removing an edge                     *)
(***************************************************************************)
Wheel(p, deltaY) ==
    /\ Ready
    /\ At(p)
    /\ pointer' = p
    /\ transform' = WheelTransform(transform, p, deltaY)
    /\ viewport' = ClientSize(rect)
    /\ Handled(WheelEvent(lastEvent.target, lastEvent.node, deltaY, transform), <<>>, <<>>)
    /\ UNCHANGED <<nodes, edges, isPanning, panStart, isDragging, dragStart, connecting,
                   pressed>>

\* the button pressed on the minimap is released on it: the mouseup reaches document as in
\* MouseUpElsewhere, then the click event runs handleMiniMapClick
MiniMapClick(c) ==
    /\ Ready
    /\ pressed = "minimap"
    /\ Lands("minimap", "none")
    /\ pressed' = "none"
    /\ isDragging' = [n \in NodeIds |-> FALSE]
    /\ isPanning' = FALSE
    /\ transform' = MiniMapTransform(transform, nodes, viewport, c)
    /\ viewport' = ClientSize(rect)
    /\ Handled(ClickEvent(c), <<>>, <<>>)
    /\ UNCHANGED <<nodes, edges, panStart, dragStart, connecting, pointer>>

\* App.onEdgesChange([{type: 'remove', id}])
RemoveEdge(id) ==
    /\ Ready
    /\ \E i \in 1..Len(edges) : edges[i].id = id
    /\ edges' = applyEdgeChanges(<<[type |-> "remove", id |-> id]>>, edges)
    /\ viewport' = ClientSize(rect)
    /\ Handled(Event("host", lastEvent.target, lastEvent.node), <<>>, <<>>)
    /\ UNCHANGED <<nodes, transform, isPanning, panStart, isDragging, dragStart, connecting,
                   pressed, pointer>>

Next ==
    \/ \E p \in DownPoints \cup {pointer} : MouseDownBackground(p)
    \/ \E target \in {"viewport", "minimap"}, p \in DownPoints \cup {pointer} :
           MouseDownViewport(target, p)
    \/ \E n \in NodeIds, part \in {"body", "target"}, p \in DownPoints \cup {pointer} :
           MouseDownNode(n, part, p)
    \/ \E n \in NodeIds, p \in DownPoints \cup {pointer} : MouseDownSource(n, p)
    \/ \E p \in Points, el \in Elements(nodes) : MouseMove(p, el)
    \/ \E n \in NodeIds, type \in {"source", "target"} : MouseUpHandle(n, type)
    \/ MouseUpElsewhere
    \/ \E p \in Points, deltaY \in DeltaYs : Wheel(p, deltaY)
    \/ \E c \in MiniMapPoints : MiniMapClick(c)
    \/ \E e \in {MkEdge(s, t) : s \in NodeIds, t \in NodeIds} : RemoveEdge(e.id)

Spec == Init /\ [][Next]_vars

(***************************************************************************)
(* Wheel zoom on its own: a viewport left at the default scale or at one   *)
(* of the two limits (where enough wheel events in one direction leave     *)
(* it), then wheel events only.                                            *)
(***************************************************************************)
ZoomTransforms ==
    { [x |-> R(x), y |-> R(0), scale |-> sc] : x \in {0, 40}, sc \in {MinScale, R(1), MaxScale} }

ZoomInit ==
    /\ nodes = <<MkNode("n1", 100, 100), MkNode("n2", 300, 100)>>
    /\ edges = <<>>
    /\ fitView = FALSE
    /\ rect \in Rects
    /\ transform \in ZoomTransforms
    /\ isPanning = FALSE
    /\ panStart = [x |-> R(0), y |-> R(0)]
    /\ isDragging = [n \in NodeIds |-> FALSE]
    /\ dragStart = [n \in NodeIds |-> Pos(0, 0)]
    /\ connecting = {}
    /\ pointer \in DownPoints
    /\ pressed = "none"
    /\ viewport = ClientSize(rect)
    /\ lastEvent = NoEvent
    /\ requests = <<>>
    /\ changes = <<>>
    /\ clock = 0
    /\ call = NoCall

ZoomNext == \E p \in Points, deltaY \in DeltaYs : Wheel(p, deltaY)

SpecZoom == ZoomInit /\ [][ZoomNext]_vars

(***************************************************************************)
(* The pure computations called on their own, the Change Algebra and the   *)
(* fit-to-content transform: any connection, any edge collection           *)
(* (duplicates and caller-assigned ids included), any node collection and  *)
(* any batch of changes, within the bounds.                                *)
(***************************************************************************)
MaxBatch == 2
AlgIds == {"a", "b", "x"}
SeqsUpTo(S, n) == UNION { [1..k -> S] : k \in 0..n }
AlgConnections == { [source |-> s, target |-> t] : s \in {"a", "b"}, t \in {"a", "b"} }
AlgEdges ==
    { [id |-> i, source |-> c.source, target |-> c.target] :
          i \in {"e1", "a-b"}, c \in AlgConnections }
AlgNodes == { MkNode(id, 0, 0) : id \in AlgIds }
AlgNodeChanges ==
    { [type |-> "position", id |-> id, position |-> pos] :
          id \in {"a", "x", "z"}, pos \in {<<>>, <<Pos(5, 5)>>, <<Pos(7, 7)>>} }
    \cup { [type |-> ty, id |-> id, position |-> <<>>] :
          ty \in {"remove", "select", "add"}, id \in {"a", "x", "z"} }

Idle == UNCHANGED <<nodes, edges, fitView, rect, transform, isPanning, panStart,
                    isDragging, dragStart, connecting, pointer, pressed, viewport, lastEvent,
                    requests, changes, clock>>

CallAddEdge ==
    /\ call.fn = "none"
    /\ \E c \in AlgConnections, es \in SeqsUpTo(AlgEdges, MaxLen) :
           call' = [fn |-> "addEdge", connection |-> c, edges |-> es,
                    result |-> addEdge(c, es)]
    /\ Idle

\* addEdge(c, addEdge(c, edges))
CallAddEdgeAgain ==
    /\ call.fn = "addEdge"
    /\ call' = [fn |-> "addEdgeAgain", connection |-> call.connection, edges |-> call.edges,
                first |-> call.result, result |-> addEdge(call.connection, call.result)]
    /\ Idle

CallApplyNodeChanges ==
    /\ call.fn = "none"
    /\ \E cs \in SeqsUpTo(AlgNodeChanges, MaxBatch), ns \in SeqsUpTo(AlgNodes, MaxLen) :
           call' = [fn |-> "applyNodeChanges", changes |-> cs, nodes |-> ns,
                    result |-> applyNodeChanges(cs, ns)]
    /\ Idle

\* a batch and the same batch in another order
AlgPermNodeChanges ==
    { [type |-> "position", id |-> id, position |-> <<Pos(5, 5)>>] : id \in {"a", "x"} }
    \cup { [type |-> ty, id |-> id, position |-> <<>>] :
              ty \in {"remove", "select"}, id \in {"a", "x"} }
AlgPermEdges ==
    { [id |-> "e1", source |-> "a", target |-> "b"],
      [id |-> "a-b", source |-> "a", target |-> "b"],
      [id |-> "b-a", source |-> "b", target |-> "a"] }
AlgPermEdgeChanges ==
    { [type |-> ty, id |-> id] : ty \in {"remove", "select"}, id \in {"e1", "a-b", "zz"} }
Permuted(cs, perm) == [i \in 1..Len(cs) |-> cs[perm[i]]]

CallApplyNodeChangesPermuted ==
    /\ call.fn = "none"
    /\ \E cs \in SeqsUpTo(AlgPermNodeChanges, MaxBatch), ns \in SeqsUpTo(AlgNodes, MaxLen) :
           \E perm \in Permutations(1..Len(cs)) :
               call' = [fn |-> "applyNodeChangesPermuted", changes |-> cs,
                        permuted |-> Permuted(cs, perm), nodes |-> ns,
                        result |-> applyNodeChanges(cs, ns),
                        resultPermuted |-> applyNodeChanges(Permuted(cs, perm), ns)]
    /\ Idle

CallApplyEdgeChangesPermuted ==
    /\ call.fn = "none"
    /\ \E cs \in SeqsUpTo(AlgPermEdgeChanges, MaxBatch), es \in SeqsUpTo(AlgPermEdges, MaxLen) :
           \E perm \in Permutations(1..Len(cs)) :
               call' = [fn |-> "applyEdgeChangesPermuted", changes |-> cs,
                        permuted |-> Permuted(cs, perm), edges |-> es,
                        result |-> applyEdgeChanges(cs, es),
                        resultPermuted |-> applyEdgeChanges(Permuted(cs, perm), es)]
    /\ Idle

\* the fitView effect run on a non-empty collection in a container of some size
FitNodes == { MkNode("a", 100, 100), MkNode("b", -500, 300), MkNode("x", 15920, 100) }
FitRects ==
    { [width |-> 800, height |-> 600], [width |-> 802, height |-> 602],
      [width |-> 300, height |-> 1000] }
CallFitView ==
    /\ call.fn = "none"
    /\ \E ns \in SeqsUpTo(FitNodes, MaxLen) \ {<<>>}, rc \in FitRects :
           call' = [fn |-> "fitView", nodes |-> ns, rect |-> rc,
                    result |-> FitEffect(TRUE, ns, rc, [x |-> R(0), y |-> R(0),
                                                        scale |-> R(1)])]
    /\ Idle

AlgebraInit ==
    /\ Init
    /\ nodes = <<MkNode("n1", 100, 100), MkNode("n2", 300, 100)>>
    /\ edges = <<>>
    /\ fitView = FALSE

AlgebraNext ==
    \/ CallAddEdge
    \/ CallAddEdgeAgain
    \/ CallApplyNodeChanges
    \/ CallApplyNodeChangesPermuted
    \/ CallApplyEdgeChangesPermuted
    \/ CallFitView

SpecAlgebra == AlgebraInit /\ [][AlgebraNext]_vars

(***************************************************************************)
(* Properties.                                                             *)
(***************************************************************************)
SamePair(e, f) == e.source = f.source /\ e.target = f.target
IsConnectEvent(ev, src, tgt) ==
    ev.kind = "up" /\ ev.target = "target" /\ ev.node = tgt /\ ev.found = <<src>>

\* C1: no two edges share the same ordered (source, target) pair, whatever connection
\* gestures have been folded in with addEdge and whatever edges have been removed; and
\* right after a gesture connecting n1 -> n2 there is exactly one edge for that pair, the
\* edge {id: 'n1-n2', source: 'n1', target: 'n2'}.
NoDuplicateEdges ==
    /\ \A i, j \in 1..Len(edges) : i < j => ~SamePair(edges[i], edges[j])
    /\ IsConnectEvent(lastEvent, "n1", "n2") =>
           /\ Cardinality({ i \in 1..Len(edges) :
                  edges[i].source = "n1" /\ edges[i].target = "n2" }) = 1
           /\ \E i \in 1..Len(edges) :
                  edges[i] = [id |-> "n1-n2", source |-> "n1", target |-> "n2"]

\* n1 -> n2 has been connected twice and one edge exists
ConnectedTwice ==
    /\ requests = <<[source |-> "n1", target |-> "n2"], [source |-> "n1", target |-> "n2"]>>
    /\ IsConnectEvent(lastEvent, "n1", "n2")
    /\ edges = <<[id |-> "n1-n2", source |-> "n1", target |-> "n2"]>>

\* C2: the stored scale always lies in [0.1, 2.0].
ScaleClamped == RLe(MinScale, transform.scale) /\ RLe(transform.scale, MaxScale)

DraggingNodes == { n \in NodeIds : isDragging[n] }
ActiveGestures ==
    (IF DraggingNodes # {} THEN {"Dragging"} ELSE {})
        \cup (IF isPanning THEN {"Panning"} ELSE {})
        \cup (IF connecting # {} THEN {"Connecting"} ELSE {})

\* C3: at most one of the gesture classes Dragging, Panning, Connecting is active, and at
\* most one node is Dragging.
GestureMutex == Cardinality(ActiveGestures) <= 1 /\ Cardinality(DraggingNodes) <= 1

\* C4: right after any pointer-up no node is Dragging and the viewport is not Panning.
PointerUpEndsGesture == lastEvent.kind = "up" => DraggingNodes = {} /\ ~isPanning

\* C5: a pointer-down on the source handle of A followed by a pointer-up on the target
\* handle of B # A emits exactly the Connection Request {source: A, target: B} and leaves
\* no connecting marker behind.
Handshake ==
    [][(/\ lastEvent.kind = "down" /\ lastEvent.target = "source"
        /\ lastEvent'.kind = "up" /\ lastEvent'.target = "target"
        /\ lastEvent'.node # lastEvent.node)
       => /\ requests' = Append(requests, [source |-> lastEvent.node,
                                            target |-> lastEvent'.node])
          /\ connecting' = {}]_vars

\* C6: no Connection Request with source equal to target is ever emitted, and no edge
\* from a node to itself exists.
NoSelfLoop ==
    /\ \A i \in 1..Len(requests) : requests[i].source # requests[i].target
    /\ \A i \in 1..Len(edges) : edges[i].source # edges[i].target

\* a pointer-up on the target handle of the node that owns the marker, and nothing emitted
SelfConnectRejected ==
    /\ lastEvent.kind = "up" /\ lastEvent.target = "target"
    /\ lastEvent.found = <<lastEvent.node>>
    /\ requests = <<>>
    /\ lastEvent.node \notin connecting

\* C7: with fit-to-content requested and applied, an event that changes the node
\* collection (outside a pan) leaves the transform as it was.
FitOneShot ==
    [][(fitView /\ Len(nodes) > 0 /\ nodes' # nodes /\ ~isPanning)
       => transform' = transform]_vars

\* C8: addEdge(c, addEdge(c, edges)) equals addEdge(c, edges).
AddEdgeIdempotent == call.fn = "addEdgeAgain" => call.result = call.first

\* the first call appended an edge and the second one did not
AddEdgeTwiceAppendsOnce ==
    /\ call.fn = "addEdgeAgain"
    /\ Len(call.first) = Len(call.edges) + 1
    /\ Len(call.edges) > 0
    /\ Len(call.result) = Len(call.first)

Duplicate(c, es) == \E i \in 1..Len(es) : es[i].source = c.source /\ es[i].target = c.target

\* C9: addEdge returns its input unchanged exactly when an edge with the same ordered
\* (source, target) pair exists; otherwise it returns the input followed by the one new
\* edge {id: source + '-' + target, source, target}.
AddEdgeContract ==
    call.fn = "addEdge" =>
        /\ (call.result = call.edges) <=> Duplicate(call.connection, call.edges)
        /\ ~Duplicate(call.connection, call.edges) =>
               call.result = call.edges \o
                   <<[id |-> call.connection.source \o "-" \o call.connection.target,
                      source |-> call.connection.source,
                      target |-> call.connection.target]>>

\* only the reversed pair exists, and the new edge is appended
ReversedPairIsDistinct ==
    /\ call.fn = "addEdge"
    /\ call.connection.source # call.connection.target
    /\ \E i \in 1..Len(call.edges) :
           /\ call.edges[i].source = call.connection.target
           /\ call.edges[i].target = call.connection.source
    /\ Len(call.result) = Len(call.edges) + 1

UniqueIds(ns) == \A i, j \in 1..Len(ns) : ns[i].id = ns[j].id => i = j
Without(ns, id) == SelectSeq(ns, LAMBDA n : n.id # id)
IsSingleRemove(c) ==
    c.fn = "applyNodeChanges" /\ Len(c.changes) = 1 /\ c.changes[1].type = "remove"

\* C10: removing an id present in a collection with unique ids yields a collection one
\* shorter, without that id, holding every other node unchanged and in order.
RemoveDropsNode ==
    (/\ IsSingleRemove(call)
     /\ UniqueIds(call.nodes)
     /\ call.changes[1].id \in Ids(call.nodes))
    => /\ Len(call.result) = Len(call.nodes) - 1
       /\ call.changes[1].id \notin Ids(call.result)
       /\ call.result = Without(call.nodes, call.changes[1].id)

\* the middle one of three nodes is removed
RemovedFromTheMiddle ==
    /\ IsSingleRemove(call)
    /\ UniqueIds(call.nodes)
    /\ Len(call.nodes) = 3
    /\ call.nodes[2].id = call.changes[1].id
    /\ call.result = <<call.nodes[1], call.nodes[3]>>

\* C11: applyNodeChanges returns its input, same nodes in the same order, when the
\* batch is empty or every change of the batch names an id that no node has.
UnknownIdsIgnored ==
    (/\ call.fn = "applyNodeChanges"
     /\ \A i \in 1..Len(call.changes) : call.changes[i].id \notin Ids(call.nodes))
    => call.result = call.nodes

\* a batch that removes and moves an id no node has, applied to three nodes
UnknownIdBatchApplied ==
    /\ call.fn = "applyNodeChanges"
    /\ Len(call.nodes) = 3
    /\ Len(call.changes) = 2
    /\ call.changes[1].type = "remove" /\ call.changes[1].id = "z"
    /\ call.changes[2].type = "position" /\ call.changes[2].position # <<>>
    /\ call.changes[2].id = "z"
    /\ call.result = call.nodes

\* the index of the first change of cs that targets id, 0 when there is none
FirstFor(cs, id) ==
    IF \E i \in 1..Len(cs) : cs[i].id = id
    THEN CHOOSE i \in 1..Len(cs) : cs[i].id = id /\ \A j \in 1..(i - 1) : cs[j].id # id
    ELSE 0
\* what the first change for a node, alone, does to it
RemovedByFirst(cs, id) == FirstFor(cs, id) # 0 /\ cs[FirstFor(cs, id)].type = "remove"
MovedByFirst(cs, n) ==
    IF /\ FirstFor(cs, n.id) # 0
       /\ cs[FirstFor(cs, n.id)].type = "position"
       /\ cs[FirstFor(cs, n.id)].position # <<>>
    THEN [n EXCEPT !.position = cs[FirstFor(cs, n.id)].position[1]]
    ELSE n
FirstWins(cs, ns) ==
    SelectSeq([i \in 1..Len(ns) |-> MovedByFirst(cs, ns[i])],
              LAMBDA n : ~RemovedByFirst(cs, n.id))

\* C12: of several changes targeting the same id only the first in batch order takes
\* effect on that node: [position(x, p), remove(x)] keeps x at p, and
\* [remove(x), position(x, p)] removes x.
FirstChangeWins ==
    call.fn = "applyNodeChanges" =>
        /\ call.result = FirstWins(call.changes, call.nodes)
        /\ (/\ Len(call.changes) = 2
            /\ call.changes[1].id = call.changes[2].id
            /\ call.changes[1].type = "position" /\ call.changes[1].position # <<>>
            /\ call.changes[2].type = "remove")
           => \A i \in 1..Len(call.nodes) :
                  call.nodes[i].id = call.changes[1].id =>
                      \E j \in 1..Len(call.result) :
                          call.result[j] = [call.nodes[i] EXCEPT !.position =
                                               call.changes[1].position[1]]
        /\ (/\ Len(call.changes) = 2
            /\ call.changes[1].id = call.changes[2].id
            /\ call.changes[1].type = "remove")
           => call.changes[1].id \notin Ids(call.result)

\* [position(x, (5,5)), remove(x)] applied to a collection holding x keeps x, at (5,5)
MovedThenRemovedIsKept ==
    /\ call.fn = "applyNodeChanges"
    /\ call.changes = <<[type |-> "position", id |-> "x", position |-> <<Pos(5, 5)>>],
                        [type |-> "remove", id |-> "x", position |-> <<>>]>>
    /\ call.nodes = <<MkNode("a", 0, 0), MkNode("x", 0, 0)>>
    /\ call.result = <<MkNode("a", 0, 0), [MkNode("x", 0, 0) EXCEPT !.position = Pos(5, 5)]>>

IsPermutedCall(c) == c.fn \in {"applyNodeChangesPermuted", "applyEdgeChangesPermuted"}
DistinctTargets(cs) == \A i, j \in 1..Len(cs) : cs[i].id = cs[j].id => i = j

\* C13: a batch of node changes, and likewise of edge changes, applied in any order
\* yields the same collection.
OrderIndependent == IsPermutedCall(call) => call.resultPermuted = call.result

\* C13 as amended: a batch in which no two changes target the same id yields the same
\* collection in any order.
OrderIndependentDistinctIds ==
    (IsPermutedCall(call) /\ DistinctTargets(call.changes))
    => call.resultPermuted = call.result

\* a remove and a move of two different nodes, swapped, both taking effect
SwappedBatchApplied ==
    /\ call.fn = "applyNodeChangesPermuted"
    /\ Len(call.changes) = 2
    /\ call.permuted = <<call.changes[2], call.changes[1]>>
    /\ call.changes[1].type = "remove" /\ call.changes[1].id = "a"
    /\ call.changes[2].type = "position" /\ call.changes[2].id = "x"
    /\ call.nodes = <<MkNode("a", 0, 0), MkNode("b", 0, 0), MkNode("x", 0, 0)>>
    /\ call.result = <<MkNode("b", 0, 0), [MkNode("x", 0, 0) EXCEPT !.position = Pos(5, 5)]>>
    /\ call.resultPermuted = call.result

InRange(sc) == RLe(MinScale, sc) /\ RLe(sc, MaxScale)
ZoomIn(ev) == ev.kind = "wheel" /\ ev.deltaY <= 0
ZoomOut(ev) == ev.kind = "wheel" /\ ev.deltaY > 0

\* C14: from a scale in [0.1, 2.0], a zoom-in wheel event (factor 1.1) never leaves the
\* scale above 2.0 and a zoom-out wheel event (factor 0.9) never leaves it below 0.1,
\* however many came before.
WheelStaysInRange ==
    /\ (ZoomIn(lastEvent) /\ InRange(lastEvent.from.scale)) =>
           RLe(transform.scale, MaxScale)
    /\ (ZoomOut(lastEvent) /\ InRange(lastEvent.from.scale)) =>
           RLe(MinScale, transform.scale)

\* a third wheel event in a row whose factor would have left the range, held at a limit
WheelHeldAtLimit ==
    /\ clock >= 3
    /\ \/ /\ ZoomIn(lastEvent)
          /\ ~RLe(RMul(lastEvent.from.scale, <<11, 10>>), MaxScale)
          /\ lastEvent.from.scale # MaxScale
          /\ transform.scale = MaxScale
       \/ /\ ZoomOut(lastEvent)
          /\ ~RLe(MinScale, RMul(lastEvent.from.scale, <<9, 10>>))
          /\ lastEvent.from.scale # MinScale
          /\ transform.scale = MinScale

\* the world point under screen point p for transform t: (p - translate) / scale
WorldUnder(p, t) ==
    [x |-> RDiv(RSub(R(p.x), t.x), t.scale), y |-> RDiv(RSub(R(p.y), t.y), t.scale)]

\* C15: the world point under the cursor is the same before and after a wheel event,
\* also when the new scale is clamped.
ZoomToCursor ==
    lastEvent.kind = "wheel" =>
        WorldUnder(pointer, transform) = WorldUnder(pointer, lastEvent.from)

\* a clamped zoom at a cursor that is not the viewport's origin point, the translate moved
ZoomedAtCursorClamped ==
    /\ lastEvent.kind = "wheel"
    /\ transform.scale \in {MinScale, MaxScale}
    /\ transform.scale # lastEvent.from.scale
    /\ RMul(lastEvent.from.scale, IF lastEvent.deltaY > 0 THEN <<9, 10>> ELSE <<11, 10>>)
           # transform.scale
    /\ transform.x # lastEvent.from.x
    /\ WorldUnder(pointer, lastEvent.from).x # R(0)

\* C16: the first pointer-move of a drag emits a 'position' change for the dragged node
\* with position (pointer - anchor) / scale, anchor = pointer at drag start - node
\* position at drag start * scale, scale being the viewport's; and at scale 1 and
\* translate (0,0), n1 dragged from (100,100) with the pointer going from (100,100) to
\* (150,130) ends at (150,130).
DragFollowsPointer ==
    [][(/\ lastEvent.kind = "down" /\ lastEvent.target = "body"
        /\ lastEvent'.kind = "move")
       => LET n == lastEvent.node
              scale == transform.scale
              start == NodeOf(nodes, n).position
              anchorX == RSub(R(pointer.x), RMul(R(start.x), scale))
              anchorY == RSub(R(pointer.y), RMul(R(start.y), scale))
              newX == RDiv(RSub(R(pointer'.x), anchorX), scale)
              newY == RDiv(RSub(R(pointer'.y), anchorY), scale)
          IN  /\ \E i \in 1..Len(changes') :
                     /\ changes'[i].type = "position" /\ changes'[i].id = n
                     /\ changes'[i].position # <<>>
                     /\ R(changes'[i].position[1].x) = newX
                     /\ R(changes'[i].position[1].y) = newY
              /\ (/\ n = "n1" /\ start = Pos(100, 100) /\ ~fitView
                  /\ transform = [x |-> R(0), y |-> R(0), scale |-> R(1)]
                  /\ pointer = Pos(100, 100) /\ pointer' = Pos(150, 130))
                 => NodeOf(nodes', "n1").position = Pos(150, 130)]_vars

\* C17: fit-to-content on a non-empty collection yields a scale <= 1 and a translate
\* that projects every node's 120x40 extent, screen = world * scale + translate, into
\* the viewport.
FitContained ==
    call.fn = "fitView" =>
        LET t == call.result
            left(n) == RAdd(RMul(R(n.position.x), t.scale), t.x)
            right(n) == RAdd(RMul(R(n.position.x + NodeWidth), t.scale), t.x)
            top(n) == RAdd(RMul(R(n.position.y), t.scale), t.y)
            bottom(n) == RAdd(RMul(R(n.position.y + NodeHeight), t.scale), t.y)
        IN  /\ RLe(t.scale, R(1))
            /\ \A i \in 1..Len(call.nodes) :
                   /\ RLe(R(0), left(call.nodes[i]))
                   /\ RLe(right(call.nodes[i]), R(call.rect.width))
                   /\ RLe(R(0), top(call.nodes[i]))
                   /\ RLe(bottom(call.nodes[i]), R(call.rect.height))

\* the single node at (100,100) in an 800x600 viewport: scale 1, the node centred
FitSingleNode ==
    /\ call.fn = "fitView"
    /\ call.nodes = <<MkNode("a", 100, 100)>>
    /\ call.rect = [width |-> 800, height |-> 600]
    /\ call.result = [x |-> R(240), y |-> R(180), scale |-> R(1)]

\* C18: a minimap click at pixel c leaves the scale unchanged and stores a translate
\* with worldClick * scale + translate = the centre of the main viewport, where
\* worldClick = c / minimapScale + boxMin.
MiniMapRecenters ==
    [][(lastEvent'.kind = "up" /\ lastEvent'.target = "minimap")
       => LET c == lastEvent'.pixel
              b == Bounds(nodes)
              worldX == RAdd(RDiv(R(c.x), MiniMapScale(nodes)), b.minX)
              worldY == RAdd(RDiv(R(c.y), MiniMapScale(nodes)), b.minY)
          IN  /\ transform'.scale = transform.scale
              /\ RAdd(RMul(worldX, transform'.scale), transform'.x)
                     = RDiv(R(ClientSize(rect).width), R(2))
              /\ RAdd(RMul(worldY, transform'.scale), transform'.y)
                     = RDiv(R(ClientSize(rect).height), R(2))]_vars

\* C19: a pointer-down on a source or target handle of a node does not put that node
\* into Dragging.
HandleNeverDrags ==
    [][(lastEvent'.kind = "down" /\ lastEvent'.target \in {"source", "target"})
       => (isDragging'[lastEvent'.node] => isDragging[lastEvent'.node])]_vars

\* C20: the viewport indicator is drawn at (-translate / scale - boxMin) * minimapScale
\* with size (viewportSize / scale) * minimapScale.
IndicatorShowsVisibleRegion ==
    LET b == Bounds(nodes)
        scale == MiniMapScale(nodes)
    IN  Indicator(transform, nodes, viewport) =
            [x |-> RMul(RSub(RDiv(RNeg(transform.x), transform.scale), b.minX), scale),
             y |-> RMul(RSub(RDiv(RNeg(transform.y), transform.scale), b.minY), scale),
             width |-> RMul(RDiv(R(viewport.width), transform.scale), scale),
             height |-> RMul(RDiv(R(viewport.height), transform.scale), scale)]

=============================================================================
